---- MODULE Spec2Model ----
(***************************************************************************)
(* EV-Doctor BMS Monitor.                                                  *)
(*                                                                         *)
(* src/App.tsx holds two screens: the classic-serial command console       *)
(* (lines 1-308) and the BLE battery monitor (lines 309-833).  Modelled    *)
(* here are the React state and the async handlers of both (one action per *)
(* suspension point), the frame decoder, and the helper modules            *)
(* BluetoothService.ts and BluetoothManager.tsx.                           *)
(*                                                                         *)
(* Specifications: Spec (BLE monitor), SpecDecode (decoder alone),         *)
(* SpecConsole (serial console), SpecListen (one response wait, with       *)
(* fairness), SpecHelpers (helper modules).                                *)
(*                                                                         *)
(* Units: a cell voltage is kept as an integer number of millivolts; the   *)
(* source multiplies the 16-bit word by 0.001 and compares with 2.8 and    *)
(* 4.25 in IEEE doubles, which for every word 0..65535 accepts exactly     *)
(* 2800..4250.                                                             *)
(***************************************************************************)
EXTENDS Integers, Sequences, FiniteSets, Bags, TLC

VARIABLES
    connectionState,   \* useState 'disconnected' | 'connecting' | 'connected'
    connectedDevice,   \* useState Device | null
    isLoading,         \* useState boolean
    error,             \* useState string | null
    modules,           \* useState BatteryModule[]
    voltageStats,      \* useState GlobalVoltageStats
    pcConnect,         \* position of the running connectDevice call
    connectTarget,     \* the device argument of the running connectDevice call
    pcDisconnect,      \* position of the running disconnectDevice call
    disconnectTarget,  \* connectedDevice.id captured by the running disconnectDevice
    linkOpen,          \* transport: devices whose connection is open
    monitors,          \* transport: devices with a registered monitor callback
    inFlight,          \* transport: notifications emitted, not yet delivered
    lastOp,            \* the handler step that ran last
    decIn,             \* decoder run: the address byte and cell word received
    decOut,            \* decoder run: <<>> before, <<module>> after decoding
    serialDevice,      \* console: useState connectedDevice (BluetoothDevice | null)
    pairingDevice,     \* console: useState pairingDevice (address | null)
    isAuthenticated,   \* console: useState boolean
    commandData,       \* console: useState string (the command text field)
    receivedData,      \* console: useState string
    pcPair,            \* console: position of the running connectWithDevice call
    pairTarget,        \* console: the device argument of that call
    pcSend,            \* console: position of the running sendCommandData call
    sendCmd,           \* console: commandData captured by that call's closure
    waits,             \* console: the running startListeningForData loops (a bag)
    alert,             \* title of the last Alert.alert
    serialOp,          \* console and helpers: the handler step that ran last
    screenDevice,      \* BluetoothScreen: useState connectedDevice
    pcScreen           \* BluetoothScreen: position of its effect or sendCommand

vars == <<connectionState, connectedDevice, isLoading, error, modules,
          voltageStats, pcConnect, connectTarget, pcDisconnect,
          disconnectTarget, linkOpen, monitors, inFlight, lastOp,
          decIn, decOut, serialDevice, pairingDevice, isAuthenticated,
          commandData, receivedData, pcPair, pairTarget, pcSend, sendCmd,
          waits, alert, serialOp, screenDevice, pcScreen>>

monitorVars == <<connectionState, connectedDevice, isLoading, error, modules,
                 voltageStats, pcConnect, connectTarget, pcDisconnect,
                 disconnectTarget, linkOpen, monitors, inFlight, lastOp>>

decodeVars == <<decIn, decOut>>

serialVars == <<serialDevice, pairingDevice, isAuthenticated, commandData,
                receivedData, pcPair, pairTarget, pcSend, sendCmd, waits,
                alert, serialOp>>

helperVars == <<screenDevice, pcScreen>>

-----------------------------------------------------------------------------
(* Bounds *)

MaxInFlight == 1
MaxTime == 2
MaxWaits == 2

(* Program constants *)

NoVoltage == -1
NoUpdate == 0
VOLTAGE_RANGE_MIN == 2800
VOLTAGE_RANGE_MAX == 4250
ModuleIdBase == 111
CellsPerModule == 6
MaxRaw == 65535
MaxByte == 255

\* the peripherals in range, and the absent device (null)
Devices == {"bms"}
NoDevice == "null"

ZeroStats == [maxVoltage |-> 0, minVoltage |-> 0, voltageDiff |-> 0,
              lastUpdate |-> NoUpdate]

-----------------------------------------------------------------------------
(* Frames: the byte buffers a notification can carry *)

WordBytes(raw) == <<raw \div 256, raw % 256>>

RECURSIVE WordsBytes(_)
WordsBytes(words) ==
    IF words = <<>> THEN <<>>
    ELSE WordBytes(Head(words)) \o WordsBytes(Tail(words))

FrameOf(addr, words) == <<addr>> \o WordsBytes(words)

AddrBytes == {111, 112}

Payloads ==
    { <<3200, 3200, 3200, 3200, 3200, 3200>>,
      <<2800, 4250, 3600, 3200, 3900, 3400>>,
      <<0, 4251, 2799, 32767, 35968, 65535>>,
      <<3400, 0, 3900, 35968, 2799, 3400>> }

ShortFrame == <<112, 12, 128, 12, 128>>

Frames ==
    { FrameOf(a, p) : a \in AddrBytes, p \in Payloads } \cup {ShortFrame, <<>>}

-----------------------------------------------------------------------------
(* processTeslaData: decoding *)

ReadUInt16BE(buf, offset) == buf[offset + 1] * 256 + buf[offset + 2]

IsValid_Exclusive(voltage) ==
    voltage > VOLTAGE_RANGE_MIN /\ voltage < VOLTAGE_RANGE_MAX

IsValid(voltage) ==
    voltage >= VOLTAGE_RANGE_MIN /\ voltage <= VOLTAGE_RANGE_MAX

DecodeCell(rawData, i) ==
    LET offset == 1 + (i * 2)
        voltage == ReadUInt16BE(rawData, offset)
        isValid == IsValid(voltage)
    IN  [id |-> i + 1,
         voltage |-> IF isValid THEN voltage ELSE NoVoltage,
         isCritical |-> ~isValid]

DecodeCells(rawData) == [k \in 1..CellsPerModule |-> DecodeCell(rawData, k - 1)]

ModuleId(rawData) == rawData[1] - ModuleIdBase

ReadThrows(rawData) ==
    \E i \in 0..(CellsPerModule - 1) : 1 + (i * 2) + 2 > Len(rawData)

-----------------------------------------------------------------------------
(* processTeslaData: merge and statistics *)

RECURSIVE FindIndexFrom(_, _, _)
FindIndexFrom(mods, moduleId, k) ==
    IF k > Len(mods) THEN -1
    ELSE IF mods[k].id = moduleId THEN k - 1
    ELSE FindIndexFrom(mods, moduleId, k + 1)

FindIndex_NeverFound(mods, moduleId) == -1

FindIndex(mods, moduleId) == FindIndexFrom(mods, moduleId, 1)

UpdatedModules(prev, moduleId, cells) ==
    LET moduleIndex == FindIndex(prev, moduleId)
    IN  IF moduleIndex >= 0
        THEN [prev EXCEPT ![moduleIndex + 1] = [id |-> moduleId, cells |-> cells]]
        ELSE Append(prev, [id |-> moduleId, cells |-> cells])

RECURSIVE FlatMapVoltages(_)
FlatMapVoltages(mods) ==
    IF mods = <<>> THEN <<>>
    ELSE [k \in 1..CellsPerModule |-> Head(mods).cells[k].voltage]
         \o FlatMapVoltages(Tail(mods))

AllVoltages_LastModuleOnly(mods) ==
    IF mods = <<>> THEN <<>>
    ELSE SelectSeq([k \in 1..CellsPerModule |-> mods[Len(mods)].cells[k].voltage],
                   LAMBDA v : v # NoVoltage)

AllVoltages(mods) == SelectSeq(FlatMapVoltages(mods), LAMBDA v : v # NoVoltage)

RECURSIVE MathMax(_)
MathMax(s) ==
    IF Len(s) = 1 THEN s[1]
    ELSE LET m == MathMax(Tail(s)) IN IF s[1] > m THEN s[1] ELSE m

RECURSIVE MathMin(_)
MathMin(s) ==
    IF Len(s) = 1 THEN s[1]
    ELSE LET m == MathMin(Tail(s)) IN IF s[1] < m THEN s[1] ELSE m

NextStats_ResetWhenEmpty(stats, updatedModules, now) ==
    LET allVoltages == AllVoltages(updatedModules)
    IN  IF Len(allVoltages) > 0
        THEN [maxVoltage |-> MathMax(allVoltages),
              minVoltage |-> MathMin(allVoltages),
              voltageDiff |-> MathMax(allVoltages) - MathMin(allVoltages),
              lastUpdate |-> now]
        ELSE ZeroStats

NextStats(stats, updatedModules, now) ==
    LET allVoltages == AllVoltages(updatedModules)
    IN  IF Len(allVoltages) > 0
        THEN [maxVoltage |-> MathMax(allVoltages),
              minVoltage |-> MathMin(allVoltages),
              voltageDiff |-> MathMax(allVoltages) - MathMin(allVoltages),
              lastUpdate |-> now]
        ELSE stats

\* what new Date().toLocaleTimeString() can return (435)
Times == 1..MaxTime

ProcessTeslaData(rawData, now) ==
    IF ReadThrows(rawData)
    THEN /\ lastOp' = "data_throw"
         /\ UNCHANGED <<modules, voltageStats>>
    ELSE LET moduleId == ModuleId(rawData)
             cells == DecodeCells(rawData)
             updatedModules == UpdatedModules(modules, moduleId, cells)
         IN  /\ modules' = updatedModules
             /\ voltageStats' = NextStats(voltageStats, modules', now)
             /\ lastOp' = IF FindIndex(modules, moduleId) >= 0
                          THEN "data_replace" ELSE "data_insert"

-----------------------------------------------------------------------------
(* BLE monitor: initial state (useState initialisers, App.tsx 346-358) *)

InitMonitor ==
    /\ connectionState = "disconnected"
    /\ connectedDevice = NoDevice
    /\ isLoading = FALSE
    /\ error = "null"
    /\ modules = <<>>
    /\ voltageStats = ZeroStats
    /\ pcConnect = "idle"
    /\ connectTarget = NoDevice
    /\ pcDisconnect = "idle"
    /\ disconnectTarget = NoDevice
    /\ linkOpen = {}
    /\ monitors = {}
    /\ inFlight = 0
    /\ lastOp = "init"

-----------------------------------------------------------------------------
(* connectDevice (App.tsx 400-431) *)

\* The device list is rendered only while no device is held, and its buttons
\* are disabled while isLoading (App.tsx 579, 595).
ConnectDevice(device) ==
    /\ connectedDevice = NoDevice
    /\ ~isLoading
    /\ pcConnect = "idle"
    /\ isLoading' = TRUE
    /\ connectionState' = "connecting"
    /\ error' = "null"
    /\ pcConnect' = "connectToDevice"
    /\ connectTarget' = device
    /\ lastOp' = "connect_start"
    /\ UNCHANGED <<connectedDevice, modules, voltageStats, pcDisconnect,
                   disconnectTarget, linkOpen, monitors, inFlight>>
    /\ UNCHANGED decodeVars
    /\ UNCHANGED helperVars
    /\ UNCHANGED serialVars

\* catch + finally without the state reset
ConnectCatch_KeepsConnecting ==
    /\ error' = "Connection failed"
    /\ UNCHANGED connectionState
    /\ isLoading' = FALSE

\* catch (425-427) and finally (428-430)
ConnectCatch ==
    /\ error' = "Connection failed"
    /\ connectionState' = "disconnected"
    /\ isLoading' = FALSE

\* await bleManager.connectToDevice resolves: the transport connection is open
ConnectToDeviceResolved ==
    /\ pcConnect = "connectToDevice"
    /\ linkOpen' = linkOpen \cup {connectTarget}
    /\ pcConnect' = "discover"
    /\ lastOp' = "transport_connected"
    /\ UNCHANGED <<connectionState, connectedDevice, isLoading, error, modules,
                   voltageStats, connectTarget, pcDisconnect, disconnectTarget,
                   monitors, inFlight>>
    /\ UNCHANGED decodeVars
    /\ UNCHANGED helperVars
    /\ UNCHANGED serialVars

\* await bleManager.connectToDevice rejects
ConnectToDeviceRejected ==
    /\ pcConnect = "connectToDevice"
    /\ ConnectCatch
    /\ pcConnect' = "idle"
    /\ connectTarget' = NoDevice
    /\ lastOp' = "connect_failed"
    /\ UNCHANGED <<connectedDevice, modules, voltageStats, pcDisconnect,
                   disconnectTarget, linkOpen, monitors, inFlight>>
    /\ UNCHANGED decodeVars
    /\ UNCHANGED helperVars
    /\ UNCHANGED serialVars

\* await discoverAllServicesAndCharacteristics resolves; 411-423 and finally
DiscoverResolved ==
    /\ pcConnect = "discover"
    /\ connectTarget \in linkOpen
    /\ connectedDevice' = connectTarget
    /\ connectionState' = "connected"
    /\ monitors' = monitors \cup {connectTarget}
    /\ isLoading' = FALSE
    /\ pcConnect' = "idle"
    /\ connectTarget' = NoDevice
    /\ lastOp' = "connect_ok"
    /\ UNCHANGED <<error, modules, voltageStats, pcDisconnect, disconnectTarget,
                   linkOpen, inFlight>>
    /\ UNCHANGED decodeVars
    /\ UNCHANGED helperVars
    /\ UNCHANGED serialVars

\* await discoverAllServicesAndCharacteristics rejects: catch and finally only
DiscoverRejected ==
    /\ pcConnect = "discover"
    /\ ConnectCatch
    /\ pcConnect' = "idle"
    /\ connectTarget' = NoDevice
    /\ lastOp' = "setup_failed"
    /\ UNCHANGED <<connectedDevice, modules, voltageStats, pcDisconnect,
                   disconnectTarget, linkOpen, monitors, inFlight>>
    /\ UNCHANGED decodeVars
    /\ UNCHANGED helperVars
    /\ UNCHANGED serialVars

-----------------------------------------------------------------------------
(* disconnectDevice (App.tsx 484-496) *)

\* 489-492 without setModules([])
DisconnectReset_KeepsModules ==
    /\ connectedDevice' = NoDevice
    /\ connectionState' = "disconnected"
    /\ UNCHANGED modules
    /\ voltageStats' = ZeroStats

\* the reset without setConnectedDevice(null)
DisconnectReset_KeepsDevice ==
    /\ UNCHANGED connectedDevice
    /\ connectionState' = "disconnected"
    /\ modules' = <<>>
    /\ voltageStats' = ZeroStats

\* 489-492
DisconnectReset ==
    /\ connectedDevice' = NoDevice
    /\ connectionState' = "disconnected"
    /\ modules' = <<>>
    /\ voltageStats' = ZeroStats

\* disconnectDevice without the early return of line 485
DisconnectDevice_NoEarlyReturn ==
    /\ ~isLoading
    /\ pcDisconnect = "idle"
    /\ pcDisconnect' = "cancelDeviceConnection"
    /\ disconnectTarget' = connectedDevice
    /\ lastOp' = "disconnect_start"
    /\ UNCHANGED <<connectionState, connectedDevice, isLoading, error, modules,
                   voltageStats, pcConnect, connectTarget, linkOpen, monitors,
                   inFlight>>
    /\ UNCHANGED decodeVars
    /\ UNCHANGED helperVars
    /\ UNCHANGED serialVars

\* The call up to its await: early return (485), or cancelDeviceConnection
\* issued.  The Disconnect button is disabled while isLoading (App.tsx 608);
\* calls with no device held exercise the handler's own guard.
DisconnectDevice ==
    /\ ~isLoading
    /\ pcDisconnect = "idle"
    /\ IF connectedDevice = NoDevice
       THEN /\ lastOp' = "disconnect_noop"
            /\ UNCHANGED <<pcDisconnect, disconnectTarget>>
       ELSE /\ pcDisconnect' = "cancelDeviceConnection"
            /\ disconnectTarget' = connectedDevice
            /\ lastOp' = "disconnect_start"
    /\ UNCHANGED <<connectionState, connectedDevice, isLoading, error, modules,
                   voltageStats, pcConnect, connectTarget, linkOpen, monitors,
                   inFlight>>
    /\ UNCHANGED decodeVars
    /\ UNCHANGED helperVars
    /\ UNCHANGED serialVars

\* await cancelDeviceConnection resolves: the transport connection is closed
CancelResolved ==
    /\ pcDisconnect = "cancelDeviceConnection"
    /\ linkOpen' = linkOpen \ {disconnectTarget}
    /\ DisconnectReset
    /\ pcDisconnect' = "idle"
    /\ disconnectTarget' = NoDevice
    /\ lastOp' = "disconnect_ok"
    /\ UNCHANGED <<isLoading, error, pcConnect, connectTarget, monitors,
                   inFlight>>
    /\ UNCHANGED decodeVars
    /\ UNCHANGED helperVars
    /\ UNCHANGED serialVars

\* await cancelDeviceConnection rejects: catch (493-495)
CancelRejected ==
    /\ pcDisconnect = "cancelDeviceConnection"
    /\ error' = "Disconnect failed"
    /\ pcDisconnect' = "idle"
    /\ disconnectTarget' = NoDevice
    /\ lastOp' = "disconnect_failed"
    /\ UNCHANGED <<connectionState, connectedDevice, isLoading, modules,
                   voltageStats, pcConnect, connectTarget, linkOpen, monitors,
                   inFlight>>
    /\ UNCHANGED decodeVars
    /\ UNCHANGED helperVars
    /\ UNCHANGED serialVars

-----------------------------------------------------------------------------
(* transport events and the monitor callback (App.tsx 415-423) *)

\* the peripheral emits a notification on a monitored, open connection
Notify ==
    /\ linkOpen \cap monitors # {}
    /\ inFlight < MaxInFlight
    /\ inFlight' = inFlight + 1
    /\ UNCHANGED <<connectionState, connectedDevice, isLoading, error, modules,
                   voltageStats, pcConnect, connectTarget, pcDisconnect,
                   disconnectTarget, linkOpen, monitors, lastOp>>
    /\ UNCHANGED decodeVars
    /\ UNCHANGED helperVars
    /\ UNCHANGED serialVars

\* the callback runs with (null, characteristic); value is the decoded buffer
MonitorCallback(value, now) ==
    /\ inFlight > 0
    /\ inFlight' = inFlight - 1
    /\ IF value # <<>>
       THEN ProcessTeslaData(value, now)
       ELSE /\ lastOp' = "data_skip"
            /\ UNCHANGED <<modules, voltageStats>>
    /\ UNCHANGED <<connectionState, connectedDevice, isLoading, error,
                   pcConnect, connectTarget, pcDisconnect, disconnectTarget,
                   linkOpen, monitors>>
    /\ UNCHANGED decodeVars
    /\ UNCHANGED helperVars
    /\ UNCHANGED serialVars

\* the link drops unsolicited; the callback runs with (error, null)
TransportDropped(device) ==
    /\ device \in linkOpen
    /\ linkOpen' = linkOpen \ {device}
    /\ lastOp' = "transport_drop"
    /\ UNCHANGED <<connectionState, connectedDevice, isLoading, error, modules,
                   voltageStats, pcConnect, connectTarget, pcDisconnect,
                   disconnectTarget, monitors, inFlight>>
    /\ UNCHANGED decodeVars
    /\ UNCHANGED helperVars
    /\ UNCHANGED serialVars

\* Dismiss (App.tsx 531)
DismissError ==
    /\ error # "null"
    /\ error' = "null"
    /\ lastOp' = "dismiss"
    /\ UNCHANGED <<connectionState, connectedDevice, isLoading, modules,
                   voltageStats, pcConnect, connectTarget, pcDisconnect,
                   disconnectTarget, linkOpen, monitors, inFlight>>
    /\ UNCHANGED decodeVars
    /\ UNCHANGED helperVars
    /\ UNCHANGED serialVars

-----------------------------------------------------------------------------
(* Serial console (App.tsx 1-308): strings are sequences of characters *)

NoDecodeInput == [addr |-> 0, raw |-> 0]

Whitespace == {" ", "\t", "\n", "\r"}

RECURSIVE TrimStart(_)
TrimStart(s) ==
    IF s # <<>> /\ Head(s) \in Whitespace THEN TrimStart(Tail(s)) ELSE s

RECURSIVE TrimEnd(_)
TrimEnd(s) ==
    IF s # <<>> /\ s[Len(s)] \in Whitespace
    THEN TrimEnd(SubSeq(s, 1, Len(s) - 1)) ELSE s

Trim(s) == TrimEnd(TrimStart(s))

StartsWith(s, prefix) ==
    /\ Len(prefix) <= Len(s)
    /\ SubSeq(s, 1, Len(prefix)) = prefix

StrOk == <<"o", "k">>
StrError == <<"e", "r", "r", "o", "r">>
StrEstablished ==
    <<"E", "S", "P", "3", "2", ":", " ", "C", "o", "n", "n", "e", "c", "t",
      "i", "o", "n", " ", "E", "s", "t", "a", "b", "l", "i", "s", "h", "e", "d">>

\* what the user can type into the command field
CommandTexts == { <<>>, <<"A", "T">> }

\* what connectedDevice.read() can resolve with
ReadResults ==
    { <<>>, <<" ", "\n">>, StrOk, StrError, StrEstablished,
      <<"A", "T", " ", "1">>, <<" ", "A", "T", " ", "1", "\r", "\n">>,
      <<"R", "V", "9">> }

maxAttempts == 10

\* the delays of lines 32 and 50, in milliseconds
SettleMs == 500
PollMs == 1000

InitSerial ==
    /\ serialDevice = NoDevice
    /\ pairingDevice = NoDevice
    /\ isAuthenticated = FALSE
    /\ commandData = <<>>
    /\ receivedData = <<>>
    /\ pcPair = "idle"
    /\ pairTarget = NoDevice
    /\ pcSend = "idle"
    /\ sendCmd = <<>>
    /\ waits = EmptyBag
    /\ alert = "none"
    /\ serialOp = "init"

\* connectWithDevice (84-99) up to its first await; a device's row is disabled
\* while it is the pairing device (215)
ConnectWithDevice(device) ==
    /\ pcPair = "idle"
    /\ pairingDevice # device
    /\ pairingDevice' = device
    /\ pairTarget' = device
    /\ pcPair' = "isConnected"
    /\ serialOp' = "pair_start"
    /\ UNCHANGED <<serialDevice, isAuthenticated, commandData, receivedData,
                   pcSend, sendCmd, waits, alert>>
    /\ UNCHANGED monitorVars
    /\ UNCHANGED decodeVars
    /\ UNCHANGED helperVars

\* await device.isConnected() resolves (88)
PairIsConnectedResolved ==
    /\ pcPair = "isConnected"
    /\ pcPair' = "connect"
    /\ serialOp' = "pair_checked"
    /\ UNCHANGED <<serialDevice, pairingDevice, isAuthenticated, commandData,
                   receivedData, pairTarget, pcSend, sendCmd, waits, alert>>
    /\ UNCHANGED monitorVars
    /\ UNCHANGED decodeVars
    /\ UNCHANGED helperVars

\* await device.isConnected() or device.connect() rejects: nothing catches it,
\* the call ends before line 98
PairRejected ==
    /\ pcPair \in {"isConnected", "connect"}
    /\ pcPair' = "idle"
    /\ pairTarget' = NoDevice
    /\ serialOp' = IF pcPair = "connect" THEN "pair_threw" ELSE "pair_check_threw"
    /\ UNCHANGED <<serialDevice, pairingDevice, isAuthenticated, commandData,
                   receivedData, pcSend, sendCmd, waits, alert>>
    /\ UNCHANGED monitorVars
    /\ UNCHANGED decodeVars
    /\ UNCHANGED helperVars

\* await device.connect() resolves (89-98)
PairConnectResolved(connected) ==
    /\ pcPair = "connect"
    /\ IF connected
       THEN /\ serialDevice' = pairTarget
            /\ alert' = "Access Granted"
            /\ isAuthenticated' = TRUE
            /\ serialOp' = "pair_ok"
       ELSE /\ serialOp' = "pair_refused"
            /\ UNCHANGED <<serialDevice, alert, isAuthenticated>>
    /\ pairingDevice' = NoDevice
    /\ pcPair' = "idle"
    /\ pairTarget' = NoDevice
    /\ UNCHANGED <<commandData, receivedData, pcSend, sendCmd, waits>>
    /\ UNCHANGED monitorVars
    /\ UNCHANGED decodeVars
    /\ UNCHANGED helperVars

\* onChangeText of the command field, rendered once authenticated and
\* connected (252-263)
SetCommandData(text) ==
    /\ isAuthenticated
    /\ serialDevice # NoDevice
    /\ commandData' = text
    /\ serialOp' = "typed"
    /\ UNCHANGED <<serialDevice, pairingDevice, isAuthenticated, receivedData,
                   pcPair, pairTarget, pcSend, sendCmd, waits, alert>>
    /\ UNCHANGED monitorVars
    /\ UNCHANGED decodeVars
    /\ UNCHANGED helperVars

\* sendCommandData (160-185) up to its await of write
SendCommandData ==
    /\ pcSend = "idle"
    /\ IF serialDevice = NoDevice
       THEN /\ alert' = "No Device Connected"
            /\ serialOp' = "send_no_device"
            /\ UNCHANGED <<pcSend, sendCmd>>
       ELSE /\ BagCardinality(waits) < MaxWaits
            /\ pcSend' = "write"
            /\ sendCmd' = commandData
            /\ serialOp' = "send_write"
            /\ UNCHANGED alert
    /\ UNCHANGED <<serialDevice, pairingDevice, isAuthenticated, commandData,
                   receivedData, pcPair, pairTarget, waits>>
    /\ UNCHANGED monitorVars
    /\ UNCHANGED decodeVars
    /\ UNCHANGED helperVars

\* startListeningForData (30-32) up to its first await, called from line 174
\* without being awaited; the closure holds the commandData that was sent
StartListeningForData(running, cmd) ==
    running (+) SetToBag({[cmd |-> cmd, attempts |-> 0, pc |-> "settle"]})

\* await connectedDevice.write resolves (169-180)
WriteResolved(success) ==
    /\ pcSend = "write"
    /\ IF success
       THEN /\ alert' = "Data Sent"
            /\ waits' = StartListeningForData(waits, sendCmd)
            /\ commandData' = <<>>
            /\ serialOp' = "send_ok"
       ELSE /\ alert' = "Send Failed"
            /\ serialOp' = "send_failed"
            /\ UNCHANGED <<waits, commandData>>
    /\ pcSend' = "idle"
    /\ sendCmd' = <<>>
    /\ UNCHANGED <<serialDevice, pairingDevice, isAuthenticated, receivedData,
                   pcPair, pairTarget>>
    /\ UNCHANGED monitorVars
    /\ UNCHANGED decodeVars
    /\ UNCHANGED helperVars

\* await connectedDevice.write rejects (181-184)
WriteRejected ==
    /\ pcSend = "write"
    /\ alert' = "Error"
    /\ serialOp' = "send_threw"
    /\ pcSend' = "idle"
    /\ sendCmd' = <<>>
    /\ UNCHANGED <<serialDevice, pairingDevice, isAuthenticated, commandData,
                   receivedData, pcPair, pairTarget, waits>>
    /\ UNCHANGED monitorVars
    /\ UNCHANGED decodeVars
    /\ UNCHANGED helperVars

\* loop w ends (59, or the while condition at 49 failing)
LoopEnds(running, w) == running (-) SetToBag({w})

\* loop w goes on as loop v
LoopContinues(running, w, v) == (running (-) SetToBag({w})) (+) SetToBag({v})

\* line 55, the command text not compared
Accepts_IgnoresCommand(response, cmd) ==
    /\ response # StrOk
    /\ response # StrError
    /\ response # StrEstablished

\* line 55
Accepts(response, cmd) ==
    /\ response # StrOk
    /\ response # StrError
    /\ response # StrEstablished
    /\ StartsWith(response, cmd)

\* the 500 ms settle delay of loop w elapses (32)
ListenSettled(w) ==
    /\ BagIn(w, waits)
    /\ w.pc = "settle"
    /\ waits' = LoopContinues(waits, w, [w EXCEPT !.pc = "poll"])
    /\ serialOp' = "listen_settled"
    /\ UNCHANGED <<serialDevice, pairingDevice, isAuthenticated, commandData,
                   receivedData, pcPair, pairTarget, pcSend, sendCmd, alert>>
    /\ UNCHANGED monitorVars
    /\ UNCHANGED decodeVars
    /\ UNCHANGED helperVars

\* one iteration of loop w (49-62): the 1000 ms delay elapses and read()
\* resolves with raw
ListenPoll(w, raw) ==
    /\ BagIn(w, waits)
    /\ w.pc = "poll"
    /\ LET response == Trim(raw)
       IN  IF response # <<>>
           THEN /\ IF Accepts(response, w.cmd)
                   THEN /\ alert' = "Data Received"
                        /\ receivedData' = response
                        /\ serialOp' = "listen_accepted"
                   ELSE /\ serialOp' = "listen_discarded"
                        /\ UNCHANGED <<alert, receivedData>>
                /\ waits' = LoopEnds(waits, w)
           ELSE /\ IF w.attempts + 1 < maxAttempts
                   THEN /\ waits' = LoopContinues(waits, w,
                                        [w EXCEPT !.attempts = @ + 1])
                        /\ serialOp' = "listen_empty"
                   ELSE /\ waits' = LoopEnds(waits, w)
                        /\ serialOp' = "listen_exhausted"
                /\ UNCHANGED <<alert, receivedData>>
    /\ UNCHANGED <<serialDevice, pairingDevice, isAuthenticated, commandData,
                   pcPair, pairTarget, pcSend, sendCmd>>
    /\ UNCHANGED monitorVars
    /\ UNCHANGED decodeVars
    /\ UNCHANGED helperVars

\* one iteration of loop w in which read() rejects, or resolves with null so
\* that toString() throws (52): nothing catches it, the loop is over
ListenReadRejected(w) ==
    /\ BagIn(w, waits)
    /\ w.pc = "poll"
    /\ waits' = LoopEnds(waits, w)
    /\ serialOp' = "listen_threw"
    /\ UNCHANGED <<serialDevice, pairingDevice, isAuthenticated, commandData,
                   receivedData, pcPair, pairTarget, pcSend, sendCmd, alert>>
    /\ UNCHANGED monitorVars
    /\ UNCHANGED decodeVars
    /\ UNCHANGED helperVars

-----------------------------------------------------------------------------
(* BluetoothService.ts helpers (55-85), called with the console's state and  *)
(* setters, and BluetoothManager.tsx: BluetoothManager.sendCommand (14-26)   *)
(* with its caller BluetoothScreen (38-61)                                   *)

\* BluetoothScreen after mount: connectedDevice is null and the effect's
\* fetchConnectedDevice awaits getConnectedDevice (39-47)
InitHelpers ==
    /\ screenDevice = NoDevice
    /\ pcScreen = "fetchConnectedDevice"

\* connectWithDevice (BluetoothService.ts 55-58) up to its await
ServiceConnectWithDevice(device) ==
    /\ pcPair = "idle"
    /\ pairingDevice # device
    /\ pairingDevice' = device
    /\ pairTarget' = device
    /\ pcPair' = "svc_connect"
    /\ serialOp' = "svc_pair_start"
    /\ UNCHANGED <<serialDevice, isAuthenticated, commandData, receivedData,
                   pcSend, sendCmd, waits, alert>>
    /\ UNCHANGED monitorVars
    /\ UNCHANGED decodeVars
    /\ UNCHANGED helperVars

\* finally (65-67)
ServiceConnectFinally == pairingDevice' = NoDevice

\* await device.connect() resolves (58-62), then finally
ServiceConnectResolved(connected) ==
    /\ pcPair = "svc_connect"
    /\ IF connected
       THEN /\ serialDevice' = pairTarget
            /\ serialOp' = "svc_pair_ok"
       ELSE /\ serialOp' = "svc_pair_refused"
            /\ UNCHANGED serialDevice
    /\ ServiceConnectFinally
    /\ pcPair' = "idle"
    /\ pairTarget' = NoDevice
    /\ UNCHANGED <<isAuthenticated, commandData, receivedData, pcSend, sendCmd,
                   waits, alert>>
    /\ UNCHANGED monitorVars
    /\ UNCHANGED decodeVars
    /\ UNCHANGED helperVars

\* await device.connect() rejects: catch (63-64), then finally
ServiceConnectRejected ==
    /\ pcPair = "svc_connect"
    /\ serialOp' = "svc_pair_threw"
    /\ ServiceConnectFinally
    /\ pcPair' = "idle"
    /\ pairTarget' = NoDevice
    /\ UNCHANGED <<serialDevice, isAuthenticated, commandData, receivedData,
                   pcSend, sendCmd, waits, alert>>
    /\ UNCHANGED monitorVars
    /\ UNCHANGED decodeVars
    /\ UNCHANGED helperVars

\* sendCommandToSerial (BluetoothService.ts 70-76) up to its await of write
ServiceSendCommandToSerial ==
    /\ pcSend = "idle"
    /\ IF serialDevice = NoDevice
       THEN /\ alert' = "No Device Connected"
            /\ serialOp' = "svc_send_no_device"
            /\ UNCHANGED pcSend
       ELSE /\ pcSend' = "svc_write"
            /\ serialOp' = "svc_send_write"
            /\ UNCHANGED alert
    /\ UNCHANGED <<serialDevice, pairingDevice, isAuthenticated, commandData,
                   receivedData, pcPair, pairTarget, sendCmd, waits>>
    /\ UNCHANGED monitorVars
    /\ UNCHANGED decodeVars
    /\ UNCHANGED helperVars

\* await connectedDevice.write resolves (76-81)
ServiceWriteResolved(success) ==
    /\ pcSend = "svc_write"
    /\ alert' = IF success THEN "Command Sent" ELSE "Send Failed"
    /\ serialOp' = IF success THEN "svc_send_ok" ELSE "svc_send_failed"
    /\ pcSend' = "idle"
    /\ UNCHANGED <<serialDevice, pairingDevice, isAuthenticated, commandData,
                   receivedData, pcPair, pairTarget, sendCmd, waits>>
    /\ UNCHANGED monitorVars
    /\ UNCHANGED decodeVars
    /\ UNCHANGED helperVars

\* await connectedDevice.write rejects (82-84)
ServiceWriteRejected ==
    /\ pcSend = "svc_write"
    /\ alert' = "Error"
    /\ serialOp' = "svc_send_threw"
    /\ pcSend' = "idle"
    /\ UNCHANGED <<serialDevice, pairingDevice, isAuthenticated, commandData,
                   receivedData, pcPair, pairTarget, sendCmd, waits>>
    /\ UNCHANGED monitorVars
    /\ UNCHANGED decodeVars
    /\ UNCHANGED helperVars

\* the effect's getConnectedDevice resolves with a device or null
\* (BluetoothManager.tsx 4-12, 42-45)
FetchConnectedDevice(device) ==
    /\ pcScreen = "fetchConnectedDevice"
    /\ screenDevice' = IF device # NoDevice THEN device ELSE screenDevice
    /\ pcScreen' = "idle"
    /\ serialOp' = "screen_fetched"
    /\ UNCHANGED <<serialDevice, pairingDevice, isAuthenticated, commandData,
                   receivedData, pcPair, pairTarget, pcSend, sendCmd, waits,
                   alert>>
    /\ UNCHANGED monitorVars
    /\ UNCHANGED decodeVars

\* BluetoothScreen.sendCommand's use of the result (56-60)
ScreenReports(success) ==
    alert' = IF success THEN "Command Sent" ELSE "Error"

\* BluetoothScreen.sendCommand (49-55) up to BluetoothManager.sendCommand's
\* await of getConnectedDevice (15)
ScreenSendCommand ==
    /\ pcScreen = "idle"
    /\ IF screenDevice = NoDevice
       THEN /\ alert' = "No Device Connected"
            /\ serialOp' = "screen_no_device"
            /\ UNCHANGED pcScreen
       ELSE /\ pcScreen' = "getConnectedDevice"
            /\ serialOp' = "mgr_query"
            /\ UNCHANGED alert
    /\ UNCHANGED screenDevice
    /\ UNCHANGED <<serialDevice, pairingDevice, isAuthenticated, commandData,
                   receivedData, pcPair, pairTarget, pcSend, sendCmd, waits>>
    /\ UNCHANGED monitorVars
    /\ UNCHANGED decodeVars

\* BluetoothManager.sendCommand (15-19): getConnectedDevice resolves; with no
\* device it returns false to BluetoothScreen.sendCommand
ManagerDeviceResolved(device) ==
    /\ pcScreen = "getConnectedDevice"
    /\ IF device = NoDevice
       THEN /\ ScreenReports(FALSE)
            /\ pcScreen' = "idle"
            /\ serialOp' = "mgr_no_device"
       ELSE /\ pcScreen' = "write"
            /\ serialOp' = "mgr_write"
            /\ UNCHANGED alert
    /\ UNCHANGED screenDevice
    /\ UNCHANGED <<serialDevice, pairingDevice, isAuthenticated, commandData,
                   receivedData, pcPair, pairTarget, pcSend, sendCmd, waits>>
    /\ UNCHANGED monitorVars
    /\ UNCHANGED decodeVars

\* BluetoothManager.sendCommand (19-25): write resolves (returns true) or
\* rejects (returns false)
ManagerWriteDone(written) ==
    /\ pcScreen = "write"
    /\ ScreenReports(written)
    /\ pcScreen' = "idle"
    /\ serialOp' = IF written THEN "mgr_sent" ELSE "mgr_write_threw"
    /\ UNCHANGED screenDevice
    /\ UNCHANGED <<serialDevice, pairingDevice, isAuthenticated, commandData,
                   receivedData, pcPair, pairTarget, pcSend, sendCmd, waits>>
    /\ UNCHANGED monitorVars
    /\ UNCHANGED decodeVars

NextHelpers ==
    \/ \E device \in Devices : ServiceConnectWithDevice(device)
    \/ \E connected \in BOOLEAN : ServiceConnectResolved(connected)
    \/ ServiceConnectRejected
    \/ ServiceSendCommandToSerial
    \/ \E success \in BOOLEAN : ServiceWriteResolved(success)
    \/ ServiceWriteRejected
    \/ \E device \in Devices \cup {NoDevice} : FetchConnectedDevice(device)
    \/ ScreenSendCommand
    \/ \E device \in Devices \cup {NoDevice} : ManagerDeviceResolved(device)
    \/ \E written \in BOOLEAN : ManagerWriteDone(written)

InitConsole ==
    /\ InitMonitor
    /\ decIn = NoDecodeInput
    /\ decOut = <<>>
    /\ InitSerial
    /\ InitHelpers

NextConsole ==
    \/ \E device \in Devices : ConnectWithDevice(device)
    \/ PairIsConnectedResolved
    \/ PairRejected
    \/ \E connected \in BOOLEAN : PairConnectResolved(connected)
    \/ \E text \in CommandTexts : SetCommandData(text)
    \/ SendCommandData
    \/ \E success \in BOOLEAN : WriteResolved(success)
    \/ WriteRejected
    \/ \E w \in BagToSet(waits) : ListenSettled(w)
    \/ \E w \in BagToSet(waits), raw \in ReadResults : ListenPoll(w, raw)
    \/ \E w \in BagToSet(waits) : ListenReadRejected(w)

SpecConsole == InitConsole /\ [][NextConsole]_vars

-----------------------------------------------------------------------------
(* Specification of one response wait: startListeningForData from its start  *)
(* to its end, for every command text and every earlier receivedData         *)

\* what receivedData can hold when a wait starts
ReceivedBefore ==
    {<<>>} \cup { Trim(raw) : raw \in { r \in ReadResults :
                      \E cmd \in CommandTexts : Accepts(Trim(r), cmd) } }

\* the console when sendCommandData has just started the wait (169-177)
InitListen ==
    /\ InitMonitor
    /\ decIn = NoDecodeInput
    /\ decOut = <<>>
    /\ InitHelpers
    /\ serialDevice \in Devices
    /\ pairingDevice = NoDevice
    /\ isAuthenticated = TRUE
    /\ commandData = <<>>
    /\ receivedData \in ReceivedBefore
    /\ pcPair = "idle"
    /\ pairTarget = NoDevice
    /\ pcSend = "idle"
    /\ sendCmd = <<>>
    /\ \E cmd \in CommandTexts : waits = StartListeningForData(EmptyBag, cmd)
    /\ alert = "Data Sent"
    /\ serialOp = "send_ok"

\* a step of the wait
ListenStep ==
    \/ \E w \in BagToSet(waits) : ListenSettled(w)
    \/ \E w \in BagToSet(waits), raw \in ReadResults : ListenPoll(w, raw)
    \/ \E w \in BagToSet(waits) : ListenReadRejected(w)

\* the wait runs while the user may go on typing in the command field
NextListen ==
    \/ ListenStep
    \/ \E text \in CommandTexts : SetCommandData(text)

\* the timers fire and read() settles
SpecListen == InitListen /\ [][NextListen]_vars /\ WF_vars(ListenStep)

-----------------------------------------------------------------------------
(* Specification of the helper modules: BluetoothService.ts and              *)
(* BluetoothManager.tsx, the serial variables being their caller's state     *)

SpecHelpers == InitConsole /\ [][NextHelpers]_vars

-----------------------------------------------------------------------------
(* Specification of the BLE monitor *)

Init ==
    /\ InitMonitor
    /\ decIn = NoDecodeInput
    /\ decOut = <<>>
    /\ InitSerial
    /\ InitHelpers

Next ==
    \/ \E device \in Devices : ConnectDevice(device)
    \/ ConnectToDeviceResolved
    \/ ConnectToDeviceRejected
    \/ DiscoverResolved
    \/ DiscoverRejected
    \/ DisconnectDevice
    \/ CancelResolved
    \/ CancelRejected
    \/ Notify
    \/ \E value \in Frames, now \in Times : MonitorCallback(value, now)
    \/ \E device \in Devices : TransportDropped(device)
    \/ DismissError

Spec == Init /\ [][Next]_vars

-----------------------------------------------------------------------------
(* Specification of the decoder alone: processTeslaData's decoding of one    *)
(* 13-byte buffer, for every 16-bit cell word and for every address byte     *)

SixWords(raw) == [k \in 1..CellsPerModule |-> raw]

DecodeInputs ==
    { [addr |-> 112, raw |-> r] : r \in 0..MaxRaw }
    \cup { [addr |-> a, raw |-> 3200] : a \in 0..MaxByte }

InitDecode ==
    /\ InitMonitor
    /\ decIn \in DecodeInputs
    /\ decOut = <<>>
    /\ InitSerial
    /\ InitHelpers

Decode ==
    /\ decOut = <<>>
    /\ LET rawData == FrameOf(decIn.addr, SixWords(decIn.raw))
       IN  decOut' = << [id |-> ModuleId(rawData), cells |-> DecodeCells(rawData)] >>
    /\ UNCHANGED decIn
    /\ UNCHANGED monitorVars
    /\ UNCHANGED serialVars
    /\ UNCHANGED helperVars

NextDecode == Decode

SpecDecode == InitDecode /\ [][NextDecode]_vars

-----------------------------------------------------------------------------
(* Properties of the BLE monitor *)

MergeOps == {"data_insert", "data_replace"}

\* a step in which the monitor callback ran processTeslaData to its end
MergeStep == inFlight' = inFlight - 1 /\ lastOp' \in MergeOps

ModuleIds(mods) == { mods[k].id : k \in 1..Len(mods) }

PresentVoltages(mods) ==
    { mods[k].cells[j].voltage : k \in 1..Len(mods), j \in 1..CellsPerModule }
    \ {NoVoltage}

Cleared ==
    /\ connectionState = "disconnected"
    /\ connectedDevice = NoDevice
    /\ modules = <<>>
    /\ voltageStats = ZeroStats

\* C1: connectDevice sets Connecting before the transport connect is awaited and
\* keeps it while the attempt runs; a completed attempt is Connected on success,
\* Disconnected with the connection-failure error on a transport failure, and
\* the state is never Connecting once no attempt is running.
C1_ConnectOutcome ==
    /\ pcConnect \in {"connectToDevice", "discover"} => connectionState = "connecting"
    /\ lastOp = "connect_ok" => connectionState = "connected"
    /\ lastOp \in {"connect_failed", "setup_failed"} =>
           connectionState = "disconnected" /\ error = "Connection failed"
    /\ pcConnect = "idle" => connectionState # "connecting"

C1_Witness ==
    /\ lastOp = "connect_failed"
    /\ connectionState = "disconnected"
    /\ error = "Connection failed"

C3_StaleDataIgnored ==
    [][ ( /\ Cleared
          /\ pcConnect = "idle"
          /\ \E value \in Frames, now \in Times : MonitorCallback(value, now) )
        => (modules' = <<>> /\ voltageStats' = ZeroStats) ]_vars

\* C4: an unsolicited drop of the connected device's link, with no disconnect
\* call running, leaves the monitor Disconnected and cleared with the
\* unexpected-disconnect error surfaced.
C4_UnsolicitedDropHandled ==
    [][ ( /\ connectionState = "connected"
          /\ pcDisconnect = "idle"
          /\ TransportDropped(connectedDevice) )
        => ( /\ connectionState' = "disconnected"
             /\ connectedDevice' = NoDevice
             /\ modules' = <<>>
             /\ voltageStats' = ZeroStats
             /\ error' = "UnexpectedDisconnect" ) ]_vars

\* C5: a setup failure after a successful transport connect ends Disconnected
\* with an error, and no transport connection is open while Disconnected.
C5_SetupFailureReleasesLink ==
    /\ lastOp = "setup_failed" =>
           connectionState = "disconnected" /\ error # "null"
    /\ connectionState = "disconnected" => linkOpen = {}

C8_StatsAreReference ==
    (lastOp \in MergeOps /\ PresentVoltages(modules) # {}) =>
        LET present == PresentVoltages(modules)
        IN  /\ voltageStats.maxVoltage \in present
            /\ \A v \in present : v <= voltageStats.maxVoltage
            /\ voltageStats.minVoltage \in present
            /\ \A v \in present : v >= voltageStats.minVoltage
            /\ voltageStats.voltageDiff =
                   voltageStats.maxVoltage - voltageStats.minVoltage
            /\ voltageStats.voltageDiff >= 0

C8_Witness ==
    /\ lastOp = "data_replace"
    /\ Len(modules) = 2
    /\ voltageStats.maxVoltage \notin PresentVoltages(<<modules[2]>>)
    /\ voltageStats.minVoltage \notin PresentVoltages(<<modules[1]>>)
    /\ voltageStats.voltageDiff > 0

\* C9: a merge that leaves no present voltage in any stored module leaves the
\* stats exactly as they were, and still stores the merged module.
C9_StatsKeptWhenNoVoltage ==
    [][ (MergeStep /\ PresentVoltages(modules') = {}) =>
          /\ voltageStats' = voltageStats
          /\ \E value \in Frames, k \in 1..Len(modules') :
               /\ value # <<>>
               /\ ~ReadThrows(value)
               /\ modules'[k] = [id |-> ModuleId(value),
                                 cells |-> DecodeCells(value)]
               /\ \A j \in 1..Len(modules) : j # k => modules'[j] = modules[j] ]_vars

C9_Witness ==
    /\ lastOp \in MergeOps
    /\ modules # <<>>
    /\ PresentVoltages(modules) = {}
    /\ voltageStats.maxVoltage > 0
    /\ voltageStats.lastUpdate # NoUpdate

\* the cell positions whose two bytes a buffer carries
CellsCarried(rawData) ==
    { k \in 1..CellsPerModule : 1 + ((k - 1) * 2) + 2 <= Len(rawData) }

\* C11: delivering a buffer too short for some cell positions stores a module
\* of exactly 6 cells for the buffer's address, in which every position the
\* buffer carries no bytes for has no voltage and is not critical, and every
\* carried position is decoded as usual (out of range: no voltage, critical).
C11_ShortFrameStored ==
    [][ ( /\ inFlight' = inFlight - 1
          /\ \E now \in Times : MonitorCallback(ShortFrame, now) )
        => \E m \in 1..Len(modules') :
             /\ modules'[m].id = ModuleId(ShortFrame)
             /\ Len(modules'[m].cells) = CellsPerModule
             /\ \A k \in 1..CellsPerModule :
                  modules'[m].cells[k] =
                      IF k \in CellsCarried(ShortFrame)
                      THEN DecodeCell(ShortFrame, k - 1)
                      ELSE [id |-> k, voltage |-> NoVoltage,
                            isCritical |-> FALSE] ]_vars

\* C12: every stored module has a positive integer id (at least 1), whatever
\* address byte the merged buffers carried.
C12_PositiveModuleId ==
    \A k \in 1..Len(modules) : modules[k].id \in Nat /\ modules[k].id >= 1

\* C15: a disconnectDevice call made while the state is Disconnected, a second
\* call right after a completed one included, issues no transport call and
\* leaves the connection state, device, modules, stats and error as they were.
C15_DisconnectIdempotent ==
    [][ ( /\ \/ connectionState = "disconnected"
             \/ lastOp \in {"disconnect_ok", "disconnect_noop"}
          /\ DisconnectDevice )
        => ( /\ pcDisconnect' = "idle"
             /\ UNCHANGED <<linkOpen, monitors>>
             /\ UNCHANGED <<connectionState, connectedDevice, modules,
                            voltageStats, error>> ) ]_vars

C15_Witness ==
    /\ lastOp = "disconnect_noop"
    /\ connectionState = "disconnected"
    /\ error = "Connection failed"
    /\ modules # <<>>
    /\ voltageStats # ZeroStats

\* C18: between handlers the state is Connected exactly when a connected
\* device is held, and isLoading is false whenever no connectDevice call is
\* running.
C18_StateMatchesDevice ==
    /\ connectionState = "connected" <=> connectedDevice # NoDevice
    /\ pcConnect = "idle" => ~isLoading
    /\ lastOp \in {"connect_ok", "connect_failed", "setup_failed"} => ~isLoading

C18_Witness ==
    /\ lastOp = "disconnect_failed"
    /\ connectionState = "connected"
    /\ connectedDevice \in Devices
    /\ pcConnect = "idle"
    /\ ~isLoading
    /\ linkOpen = {}

-----------------------------------------------------------------------------
(* Properties of the decoder *)

\* C10: for every cell word with the high bit clear, the decoded cell carries
\* the word as millivolts and is not critical when 2800 <= word <= 4250, and
\* carries no voltage and is critical otherwise; six words 0x0C80 decode to six
\* cells of 3200 mV, none critical; a word of 0 is critical (received, rejected).
C10_DecodeHighBitClear ==
    (decOut # <<>> /\ decIn.raw <= 32767) =>
        /\ Len(decOut[1].cells) = 6
        /\ \A k \in 1..6 :
             decOut[1].cells[k] =
                 IF 2800 <= decIn.raw /\ decIn.raw <= 4250
                 THEN [id |-> k, voltage |-> decIn.raw, isCritical |-> FALSE]
                 ELSE [id |-> k, voltage |-> NoVoltage, isCritical |-> TRUE]
        /\ decIn.raw = 3200 =>
             \A k \in 1..6 : /\ decOut[1].cells[k].voltage = 3200
                             /\ ~decOut[1].cells[k].isCritical
        /\ decIn.raw = 0 =>
             \A k \in 1..6 : /\ decOut[1].cells[k].voltage = NoVoltage
                             /\ decOut[1].cells[k].isCritical

C10_Witness ==
    /\ decOut # <<>>
    /\ decIn.raw = 2800
    /\ decOut[1].cells[6] = [id |-> 6, voltage |-> 2800, isCritical |-> FALSE]

\* C17: a cell word with bit 15 set decodes to the same cell (voltage and
\* isCritical) as the word with bit 15 cleared; 0x8C80 decodes like 0x0C80 to
\* 3200 mV, not critical.
C17_HighBitMasked ==
    (decOut # <<>> /\ decIn.raw >= 32768) =>
        LET cleared == FrameOf(decIn.addr, SixWords(decIn.raw - 32768))
        IN  /\ \A k \in 1..CellsPerModule :
                 decOut[1].cells[k] = DecodeCell(cleared, k - 1)
            /\ decIn.raw = 35968 =>
                 \A k \in 1..CellsPerModule :
                     /\ decOut[1].cells[k].voltage = 3200
                     /\ ~decOut[1].cells[k].isCritical

-----------------------------------------------------------------------------
(* Properties of the serial console *)

\* C6: at most one command is awaiting its response at any time: two response
\* waits (startListeningForData loops) are never running together.
C6_SingleResponseWait == BagCardinality(waits) <= 1

\* a step in which loop w gives up after its last read came back empty
Exhausts(w) ==
    /\ w.pc = "poll"
    /\ w.attempts + 1 = maxAttempts
    /\ serialOp' = "listen_exhausted"
    /\ waits' = LoopEnds(waits, w)

\* the least time from the start of loop w to the end of its next read
ElapsedMs(w) == SettleMs + ((w.attempts + 1) * PollMs)

\* C14: a response wait that ends without any response is reported to the
\* caller as a Timeout, not earlier than 5000 ms after the send, and starts no
\* write and no further wait by itself.
C14_TimeoutReported ==
    [][ \A w \in BagToSet(waits) :
          Exhausts(w) =>
            /\ alert' = "Timeout"
            /\ ElapsedMs(w) >= 5000
            /\ UNCHANGED <<pcSend, sendCmd>> ]_vars

\* a received response that is neither the awaited answer to cmd nor the
\* negative response
Unmatched(response, cmd) ==
    /\ response # <<>>
    /\ response # StrError
    /\ ~Accepts(response, cmd)

\* C16: a read that returns data matching neither the awaited answer nor the
\* negative response leaves the wait running and stores and reports nothing.
C16_OtherDataIgnored ==
    [][ ( /\ serialOp' = "listen_discarded"
          /\ \E w \in BagToSet(waits), raw \in ReadResults :
               Unmatched(Trim(raw), w.cmd) /\ ListenPoll(w, raw) )
        => ( /\ BagCardinality(waits') = BagCardinality(waits)
             /\ UNCHANGED <<receivedData, alert>> ) ]_vars

\* C19: once a connection attempt made through connectWithDevice is over,
\* whether connect() returned true, returned false or threw, pairingDevice is
\* null again; for the App.tsx handler and for the BluetoothService.ts helper.
C19_PairingCleared ==
    serialOp \in {"pair_ok", "pair_refused", "pair_threw",
                  "svc_pair_ok", "svc_pair_refused", "svc_pair_threw"}
        => pairingDevice = NoDevice

\* C20: the response wait ends; it reads only while fewer than 10 reads came
\* back empty, so at most 10 times; a read returning a non-empty trimmed
\* response ends it, an empty one ends it only as the 10th; and receivedData
\* becomes that response exactly when it is not "ok", "error" or the connection
\* banner and starts with the command text sent, and is unchanged otherwise.
C20_PollingTerminates ==
    /\ <>(waits = EmptyBag)
    /\ [](\A w \in BagToSet(waits) : w.attempts < maxAttempts)
    /\ [][ receivedData' # receivedData => serialOp' = "listen_accepted" ]_vars
    /\ [][ \A w \in BagToSet(waits), raw \in ReadResults :
             ListenPoll(w, raw) =>
               LET response == Trim(raw)
                   stored == /\ response # <<>>
                             /\ response \notin {StrOk, StrError, StrEstablished}
                             /\ StartsWith(response, w.cmd)
               IN  /\ receivedData' = IF stored THEN response ELSE receivedData
                   /\ response # <<>> => waits' = LoopEnds(waits, w)
                   /\ response = <<>> =>
                        IF w.attempts + 1 = maxAttempts
                        THEN waits' = LoopEnds(waits, w)
                        ELSE waits' = LoopContinues(waits, w,
                                          [w EXCEPT !.attempts = @ + 1]) ]_vars

C20_Witness ==
    /\ serialOp = "listen_exhausted"
    /\ waits = EmptyBag
    /\ receivedData = <<"R", "V", "9">>
    /\ alert = "Data Sent"

-----------------------------------------------------------------------------
(* Properties of the senders *)

\* a send that finds no device connected
NoDeviceSend ==
    \/ serialDevice = NoDevice /\ SendCommandData
    \/ serialDevice = NoDevice /\ ServiceSendCommandToSerial
    \/ pcScreen = "getConnectedDevice" /\ ManagerDeviceResolved(NoDevice)

\* C13: a send that finds no device connected, through sendCommandData,
\* sendCommandToSerial or BluetoothManager.sendCommand, ends at once: no write
\* is awaited, no response wait is started, and the report to the caller is
\* that no device is connected.
C13_NoDeviceSendFails ==
    [][ NoDeviceSend =>
          /\ pcSend' \notin {"write", "svc_write"}
          /\ pcScreen' # "write"
          /\ UNCHANGED waits
          /\ alert' = "No Device Connected" ]_vars

====
